---- MODULE Spec2Model ----
(***************************************************************************)
(* A model of brewfile (src/brewfile): the configuration store             *)
(* (models.py), the installed-package snapshot and the diff (brew.py) and  *)
(* the command handlers of BrewfileManager (manager.py).                   *)
(*                                                                         *)
(* A package name is a sequence of atoms: the text between the "::"        *)
(* separators.  <<"slack">> is "slack", <<"slack", "1">> is "slack::1".    *)
(* So  "::" in name  is  Len(name) > 1,  name.split("::")[0]  is           *)
(* <<name[1]>>  and  name.split("::", 1)  is  (<<name[1]>>, Tail(name)).   *)
(***************************************************************************)
EXTENDS Integers, Sequences, FiniteSets, TLC

\* ------------------------------------------------------------------ bounds
\* number of packages in the configuration document the run starts from
MaxCfgPkgs == 1
\* number of packages installed on the system the run starts from
MaxSysPkgs == 2
\* length of the lists given to compare_packages on its own
MaxLen == 2

\* --------------------------------------------------------------- universe
\* PackageInfo.group of a package seen on the system
None == "None"
\* a file with its content
File(data) == [exists |-> TRUE, data |-> data]
\* BrewfileManager.hostname, and the keys a machines mapping may hold
hostname == "host1"
Hosts == {hostname}
GroupNames == {"core", "dev"}

\* the order json.dump(sort_keys=True) gives the group names
KeyRank(g) ==
    CASE g = "adopted" -> 1
      [] g = "core" -> 2
      [] g = "dev" -> 3

\* class PackageType, in enumeration order
PackageType == <<"tap", "brew", "cask", "mas">>
PackageTypes == {"tap", "brew", "cask", "mas"}

plural(t) ==
    CASE t = "tap" -> "taps"
      [] t = "brew" -> "brews"
      [] t = "cask" -> "casks"
      [] t = "mas" -> "mas"

\* the (type, name) pairs configuration documents are built from
CfgUniverse ==
    { <<"tap", <<"t">> >>, <<"brew", <<"git">> >>, <<"cask", <<"slack">> >>,
      <<"mas", <<"slack">> >>, <<"mas", <<"slack", "1">> >> }

\* the (type, name) pairs that can be installed; libx is a formula that was
\* installed as a dependency and is no longer needed by anything
SysUniverse ==
    { <<"tap", <<"t">> >>, <<"brew", <<"git">> >>, <<"brew", <<"libx">> >>,
      <<"mas", <<"slack">> >> }
Orphans == { <<"brew", <<"libx">> >> }

\* ---------------------------------------------------------------- helpers
Contains(seq, x) == \E i \in 1..Len(seq) : seq[i] = x

Range(seq) == { seq[i] : i \in 1..Len(seq) }

\* list.remove(x): drops the first occurrence
RECURSIVE ListRemove(_, _)
ListRemove(seq, x) ==
    IF seq = <<>> THEN <<>>
    ELSE IF Head(seq) = x THEN Tail(seq)
    ELSE <<Head(seq)>> \o ListRemove(Tail(seq), x)

RECURSIVE Concat(_)
Concat(seqs) ==
    IF seqs = <<>> THEN <<>> ELSE Head(seqs) \o Concat(Tail(seqs))

\* the sequences without repetition over a finite set
RECURSIVE Perms(_)
Perms(S) ==
    IF S = {} THEN { <<>> }
    ELSE UNION { { <<x>> \o p : p \in Perms(S \ {x}) } : x \in S }

\* "::" in name
HasId(name) == Len(name) > 1

\* name.split("::")[0]
AppName(name) == <<name[1]>>

\* -------------------------------------------------------------- models.py
\* PackageGroup()
PackageGroup == [taps |-> <<>>, brews |-> <<>>, casks |-> <<>>, mas |-> <<>>]

\* mutant: the name is appended without the membership test
add_package_unchecked(group, package_type, package_name) ==
    [group EXCEPT ![plural(package_type)] = Append(@, package_name)]

\* PackageGroup.add_package
add_package(group, package_type, package_name) ==
    IF Contains(group[plural(package_type)], package_name)
    THEN group
    ELSE [group EXCEPT ![plural(package_type)] = Append(@, package_name)]

\* PackageGroup.remove_package: the group afterwards and the returned flag
group_remove_package(group, package_type, package_name) ==
    IF Contains(group[plural(package_type)], package_name)
    THEN [group |-> [group EXCEPT ![plural(package_type)] = ListRemove(@, package_name)],
          removed |-> TRUE]
    ELSE [group |-> group, removed |-> FALSE]

\* PackageGroup.get_packages_of_type
get_packages_of_type(group, package_type) == group[plural(package_type)]

\* PackageInfo(name, group, package_type), installed defaulting to UNKNOWN
PackageInfo(name, group, package_type, installed) ==
    [name |-> name, group |-> group, package_type |-> package_type,
     installed |-> installed]

\* a machines dict: for each host whether it is a key, and its list of groups
NoMachines == [h \in Hosts |-> [present |-> FALSE, groups |-> <<>>]]

\* machine_name in config.machines
HasMachine(machines, machine_name) ==
    machine_name \in Hosts /\ machines[machine_name].present

\* BrewfileConfig(): packages is a dict, kept as the sequence of its items in
\* insertion order; machines is a dict whose order is never used
BrewfileConfig == [version |-> "1.0", packages |-> <<>>, machines |-> NoMachines]

\* group_name in config.packages
HasGroup(packages, group_name) ==
    \E i \in 1..Len(packages) : packages[i].name = group_name

\* config.packages[group_name]
GetGroup(packages, group_name) ==
    LET i == CHOOSE j \in 1..Len(packages) : packages[j].name = group_name
    IN  packages[i].group

\* config.packages[group_name] = group
SetGroup(packages, group_name, group) ==
    IF HasGroup(packages, group_name)
    THEN [i \in 1..Len(packages) |->
            IF packages[i].name = group_name
            THEN [name |-> group_name, group |-> group]
            ELSE packages[i]]
    ELSE Append(packages, [name |-> group_name, group |-> group])

\* the items of a dict sorted by key
RECURSIVE SortItems(_)
SortItems(items) ==
    IF items = <<>> THEN <<>>
    ELSE LET i == CHOOSE j \in 1..Len(items) :
                    \A k \in 1..Len(items) : KeyRank(items[j].name) <= KeyRank(items[k].name)
             rest == [k \in 1..(Len(items) - 1) |-> IF k < i THEN items[k] ELSE items[k + 1]]
         IN  <<items[i]>> \o SortItems(rest)

\* BrewfileConfig.to_dict then json.dump(indent=2, sort_keys=True): the document
to_document(config) ==
    [version |-> config.version,
     packages |-> SortItems(config.packages),
     machines |-> config.machines]

\* BrewfileConfig.from_dict: the groups in the order of the document
from_dict(data) ==
    [version |-> data.version, packages |-> data.packages, machines |-> data.machines]

\* config_file when no file exists at that path
NoConfigFile == [exists |-> FALSE, data |-> to_document(BrewfileConfig)]

\* BrewfileConfig.load
load(config_file) ==
    IF ~config_file.exists THEN BrewfileConfig ELSE from_dict(config_file.data)

\* mutant: the types of a group are gone through in reverse
GroupPackages_reversed(group_name, group) ==
    Concat([t \in 1..4 |->
        [i \in 1..Len(get_packages_of_type(group, PackageType[5 - t])) |->
            PackageInfo(get_packages_of_type(group, PackageType[5 - t])[i], group_name,
                        PackageType[5 - t], "unknown")]])

\* the packages of one group, by type in enumeration order
GroupPackages(group_name, group) ==
    Concat([t \in 1..4 |->
        [i \in 1..Len(get_packages_of_type(group, PackageType[t])) |->
            PackageInfo(get_packages_of_type(group, PackageType[t])[i], group_name,
                        PackageType[t], "unknown")]])

\* BrewfileConfig.get_machine_packages
get_machine_packages(config, machine_name) ==
    IF ~HasMachine(config.machines, machine_name) THEN <<>>
    ELSE LET groups == config.machines[machine_name].groups
         IN  Concat([g \in 1..Len(groups) |->
                IF HasGroup(config.packages, groups[g])
                THEN GroupPackages(groups[g], GetGroup(config.packages, groups[g]))
                ELSE <<>>])

\* BrewfileConfig.get_package_info: the first match, groups in dict order, then
\* types in enumeration order
get_package_info(config, package_name) ==
    LET hits == { <<g, t>> \in (1..Len(config.packages)) \X (1..4) :
                    Contains(get_packages_of_type(config.packages[g].group, PackageType[t]),
                             package_name) }
    IN  IF hits = {} THEN [found |-> FALSE, group |-> None, package_type |-> None]
        ELSE LET h == CHOOSE x \in hits :
                        \A y \in hits : x[1] < y[1] \/ (x[1] = y[1] /\ x[2] <= y[2])
             IN  [found |-> TRUE, group |-> config.packages[h[1]].name,
                  package_type |-> PackageType[h[2]]]

\* mutant: the loop over PackageType stops at the first type that held the name
RemoveFromGroup_first_type(group, t, package_name) ==
    LET held == { u \in t..4 :
                    Contains(get_packages_of_type(group, PackageType[u]), package_name) }
    IN  IF held = {} THEN group
        ELSE group_remove_package(group,
                PackageType[CHOOSE u \in held : \A v \in held : u <= v],
                package_name).group

\* the loop over PackageType of BrewfileConfig.remove_package, on one group
RECURSIVE RemoveFromGroup(_, _, _)
RemoveFromGroup(group, t, package_name) ==
    IF t > 4 THEN group
    ELSE RemoveFromGroup(group_remove_package(group, PackageType[t], package_name).group,
                         t + 1, package_name)

\* mutant: the name is taken out of no group and nothing is saved
remove_package_nothing(config, package_name) ==
    [config |-> config, removed_type |-> None, removed_from_any_group |-> FALSE]

\* BrewfileConfig.remove_package: the configuration afterwards, the returned
\* type (the last one removed) and whether the configuration is saved
remove_package(config, package_name) ==
    LET hits == { <<g, t>> \in (1..Len(config.packages)) \X (1..4) :
                    group_remove_package(config.packages[g].group, PackageType[t],
                                         package_name).removed }
        packages == [g \in 1..Len(config.packages) |->
                        [name |-> config.packages[g].name,
                         group |-> RemoveFromGroup(config.packages[g].group, 1, package_name)]]
    IN  [config |-> [config EXCEPT !.packages = packages],
         removed_type |->
            IF hits = {} THEN None
            ELSE LET h == CHOOSE x \in hits :
                            \A y \in hits : x[1] > y[1] \/ (x[1] = y[1] /\ x[2] >= y[2])
                 IN  PackageType[h[2]],
         removed_from_any_group |-> hits # {}]

\* ---------------------------------------------------------------- brew.py
\* PackageCache() before any refresh, and a cache holding a snapshot
NoCache == [loaded |-> FALSE, packages |-> <<>>]
Cached(packages) == [loaded |-> TRUE, packages |-> packages]

\* PackageCache.refresh, lines 121-131: the snapshot built from the dict that
\* Brew.Bundle.list_packages returned
Snapshot(package_dict) ==
    Concat([t \in 1..4 |->
        [i \in 1..Len(package_dict[plural(PackageType[t])]) |->
            PackageInfo(package_dict[plural(PackageType[t])][i], None,
                        PackageType[t], "installed")]])

\* PackageCache.get_installed_packages, once the cache is loaded
get_installed_packages(cache) == cache.packages

\* mutant: an empty snapshot counts as no snapshot
needs_refresh_if_empty(cache) == ~cache.loaded \/ cache.packages = <<>>

\* PackageCache.get_installed_packages line 107: self._installed_packages is None
needs_refresh(cache) == ~cache.loaded

\* mutant: every package is looked up by its full name, a StoreApp too
update_package_status_exact(packages, installed_packages) ==
    [i \in 1..Len(packages) |->
        [packages[i] EXCEPT !.installed =
            IF \E j \in 1..Len(installed_packages) :
                    /\ installed_packages[j].name = packages[i].name
                    /\ installed_packages[j].package_type = packages[i].package_type
            THEN "installed" ELSE "not_installed"]]

\* PackageCache.update_package_status: the packages with their status set
update_package_status(packages, installed_packages) ==
    LET installed_keys == { <<installed_packages[i].name, installed_packages[i].package_type>> :
                                i \in 1..Len(installed_packages) }
        is_installed(pkg) ==
            IF pkg.package_type = "mas" /\ HasId(pkg.name)
            THEN \E i \in 1..Len(installed_packages) :
                    <<AppName(pkg.name), "mas">> =
                        <<installed_packages[i].name, installed_packages[i].package_type>>
            ELSE <<pkg.name, pkg.package_type>> \in installed_keys
    IN  [i \in 1..Len(packages) |->
            [packages[i] EXCEPT !.installed =
                IF is_installed(packages[i]) THEN "installed" ELSE "not_installed"]]

\* compare_packages: (missing, extra)
compare_packages(configured, installed) ==
    LET installed_keys == { <<installed[i].name, installed[i].package_type>> :
                                i \in 1..Len(installed) }
        configured_keys == { <<configured[i].name, configured[i].package_type>> :
                                i \in 1..Len(configured) }
        configured_mas_names ==
            { <<AppName(configured[i].name), "mas">> :
                i \in { j \in 1..Len(configured) :
                            configured[j].package_type = "mas" /\ HasId(configured[j].name) } }
        installed_mas_names ==
            { <<installed[i].name, installed[i].package_type>> :
                i \in { j \in 1..Len(installed) : installed[j].package_type = "mas" } }
        is_missing(pkg) ==
            IF pkg.package_type = "mas" /\ HasId(pkg.name)
            THEN <<AppName(pkg.name), "mas">> \notin installed_mas_names
            ELSE <<pkg.name, pkg.package_type>> \notin installed_keys
        is_extra(pkg) ==
            IF pkg.package_type = "mas"
            THEN /\ <<pkg.name, pkg.package_type>> \notin configured_keys
                 /\ <<pkg.name, pkg.package_type>> \notin configured_mas_names
            ELSE <<pkg.name, pkg.package_type>> \notin configured_keys
    IN  [missing |-> SelectSeq(configured, is_missing),
         extra |-> SelectSeq(installed, is_extra)]

\* ------------------------------------------------------------- manager.py
\* brewfile_path when no file exists at that path
NoBrewfile == [exists |-> FALSE, data |-> <<>>]

\* the names of one type among packages
NamesOfType(packages, package_type) ==
    LET sel == SelectSeq(packages, LAMBDA p : p.package_type = package_type)
    IN  [i \in 1..Len(sel) |-> sel[i].name]

Directive(kind, names) ==
    [i \in 1..Len(names) |-> [kind |-> kind, name |-> names[i], id |-> <<>>]]

\* mutant: no empty line after a group
BlankAfter_never(names) == <<>>

\* lines 78-93: the empty line after the taps, the brews and the casks
BlankAfter(names) ==
    IF names # <<>> THEN << [kind |-> "blank", name |-> <<>>, id |-> <<>>] >> ELSE <<>>

\* BrewfileManager.dump_brewfile: the lines written to the Brewfile
dump_brewfile(config, machine_name) ==
    LET packages == get_machine_packages(config, machine_name)
        taps == NamesOfType(packages, "tap")
        brews == NamesOfType(packages, "brew")
        casks == NamesOfType(packages, "cask")
        mas_apps == NamesOfType(packages, "mas")
    IN  Directive("tap", taps) \o BlankAfter(taps)
        \o Directive("brew", brews) \o BlankAfter(brews)
        \o Directive("cask", casks) \o BlankAfter(casks)
        \o [i \in 1..Len(mas_apps) |->
                IF HasId(mas_apps[i])
                THEN [kind |-> "mas", name |-> AppName(mas_apps[i]), id |-> Tail(mas_apps[i])]
                ELSE [kind |-> "comment", name |-> mas_apps[i], id |-> <<>>]]

\* mutant: the Brewfile is not regenerated, the call gets the file as it was
_ensure_brewfile_stale(config, old) == old

\* BrewfileManager._ensure_brewfile: the file at brewfile_path afterwards
_ensure_brewfile(config, old) == File(dump_brewfile(config, hostname))

\* ------------------------------------------------------------ the backend
\* the packages a manifest asks for: one per directive, none per comment
ManifestPkgs(manifest) ==
    IF ~manifest.exists THEN {}
    ELSE { <<manifest.data[i].kind, manifest.data[i].name>> :
            i \in { j \in 1..Len(manifest.data) :
                        manifest.data[j].kind \in PackageTypes } }

\* brew autoremove: the orphaned dependencies go.  It is run with check=False,
\* so its exit status is never looked at and the log does not keep it.
BrewAutoremove(sys, ok) == IF ok THEN sys \ Orphans ELSE sys

\* brew bundle install --file: what the manifest lists is installed
BrewBundleInstall(sys, manifest, ok) ==
    IF ok THEN sys \cup ManifestPkgs(manifest) ELSE sys

\* brew bundle cleanup --force --file: what the manifest does not list goes
BrewBundleCleanup(sys, manifest, ok) ==
    IF ok THEN sys \cap ManifestPkgs(manifest) ELSE sys

\* brew uninstall [--cask] / brew untap
BrewUninstall(sys, package_type, name, ok) ==
    IF ok THEN sys \ { <<package_type, name>> } ELSE sys

\* the outputs brew bundle list can give for the four types: the names of the
\* type in some order, or nothing for a type whose query failed
Listings(sys) ==
    LET names(t) == { p[2] : p \in { q \in sys : q[1] = t } }
    IN  UNION { [taps : Perms(names("tap") \ f[1]) , brews : Perms(names("brew") \ f[2]),
                 casks : Perms(names("cask") \ f[3]), mas : Perms(names("mas") \ f[4])] :
                f \in { <<a, b, c, d>> : a \in {{}, names("tap")}, b \in {{}, names("brew")},
                                         c \in {{}, names("cask")}, d \in {{}, names("mas")} } }

\* one entry of the log: a call of the backend, a save of the configuration
\* or a warning
Event(op, ok, name, manifest) ==
    [op |-> op, ok |-> ok, name |-> name, manifest |-> manifest]

Call(op, ok) == Event(op, ok, <<>>, NoBrewfile)

\* ------------------------------------------------------------------ state
VARIABLES
    disk,       \* the file at config_file: ~/.config/brewfile.json
    brewfile,   \* the file at brewfile_path: ~/Brewfile
    system,     \* the packages installed on the host
    config,     \* BrewfileManager.config
    cache,      \* BrewfileManager.package_cache._installed_packages
    cmd,        \* the command handler that runs, with its arguments
    pc,         \* where the handler stands
    status,     \* configured, missing, extra: what machine_packages returned
    confirm,    \* the answer read at the confirmation prompt
    package_info, \* cmd_remove: what get_package_info returned
    log,        \* backend calls, saves and warnings since the handler started
    exit,       \* how the process ended: ok, fatal (die) or crash (uncaught)
    disk0,      \* disk when the handler started
    system0     \* system when the handler started

vars == <<disk, brewfile, system, config, cache, cmd, pc, status, confirm,
          package_info, log, exit, disk0, system0>>

NoCmd == [name |-> "none", package_name |-> <<>>, package_type |-> None]
NoStatus == [configured |-> <<>>, missing |-> <<>>, extra |-> <<>>]
NoInfo == [found |-> FALSE, group |-> None, package_type |-> None]

\* the names given to add and to remove on the command line
AddNames == { <<"git">>, <<"htop">> }
RemoveNames == { <<"git">>, <<"slack">>, <<"slack", "1">>, <<"t">>, <<"htop">> }

\* cli.main: the commands and their arguments (--cask or no type for add)
Commands ==
    { [name |-> n, package_name |-> <<>>, package_type |-> None] :
        n \in {"sync-adopt", "sync-cleanup", "status", "interactive"} }
    \cup { [name |-> "add", package_name |-> n, package_type |-> t] :
            n \in AddNames, t \in {None, "cask"} }
    \cup { [name |-> "remove", package_name |-> n, package_type |-> None] :
            n \in RemoveNames }

\* what the operator can type at "Proceed? (y/N): ", lowered and stripped
Answers == {"y", "n", "EOFError", "KeyboardInterrupt"}
\* confirm.startswith("y")
Affirmative(answer) == answer = "y"

\* the configuration documents a run starts from
Placements ==
    { P \in SUBSET (GroupNames \X CfgUniverse) : Cardinality(P) <= MaxCfgPkgs }

GroupChoices(P, g) ==
    LET names(t) == { x[2][2] : x \in { y \in P : y[1] = g /\ y[2][1] = t } }
    IN  [taps : Perms(names("tap")), brews : Perms(names("brew")),
         casks : Perms(names("cask")), mas : Perms(names("mas"))]

MachineEntries ==
    { [present |-> FALSE, groups |-> <<>>] }
    \cup { [present |-> TRUE, groups |-> q] :
            q \in UNION { Perms(T) : T \in SUBSET GroupNames } }

InitDocs ==
    UNION { UNION { UNION {
        { [version |-> "1.0",
           packages |-> SortItems([i \in 1..Len(order) |->
                            [name |-> order[i], group |-> f[order[i]]]]),
           machines |-> [h \in Hosts |-> m]] :
            f \in { x \in [GroupNames -> UNION { GroupChoices(P, g) : g \in GroupNames }] :
                        \A g \in GroupNames : x[g] \in GroupChoices(P, g) } } :
        order \in { CHOOSE q \in Perms(S) : TRUE : S \in
                    { T \in SUBSET GroupNames : \A x \in P : x[1] \in T } } } :
        P \in Placements } : m \in MachineEntries }

InitSystems == { s \in SUBSET SysUniverse : Cardinality(s) <= MaxSysPkgs }

Init ==
    /\ disk \in { NoConfigFile } \cup { File(d) : d \in InitDocs }
    /\ system \in InitSystems
    /\ brewfile = NoBrewfile
    /\ config = BrewfileConfig
    /\ cache = NoCache
    /\ cmd = NoCmd
    /\ pc = "idle"
    /\ status = NoStatus
    /\ confirm = ""
    /\ package_info = NoInfo
    /\ log = <<>>
    /\ exit = "none"
    /\ disk0 = disk
    /\ system0 = system

\* ---------------------------------------------------------------- actions
\* utils.die: the process exits 1; a return from the handler: it exits 0
Die == pc' = "done" /\ exit' = "fatal"
Return == pc' = "done" /\ exit' = "ok"
\* an exception nothing catches: traceback, the process exits 1
Crash == pc' = "done" /\ exit' = "crash"

Warn(msg) == Event("warn", TRUE, <<msg>>, NoBrewfile)

\* cli.main: a new process, a new BrewfileManager, one command
Start ==
    /\ pc = "idle"
    /\ \E c \in Commands :
        /\ cmd' = c
        /\ pc' = CASE c.name = "add" -> "add"
                   [] c.name = "remove" -> "remove"
                   [] OTHER -> "machine_packages"
    /\ config' = BrewfileConfig
    /\ cache' = NoCache
    /\ status' = NoStatus
    /\ confirm' = ""
    /\ package_info' = NoInfo
    /\ log' = <<>>
    /\ exit' = "none"
    /\ disk0' = disk
    /\ system0' = system
    /\ UNCHANGED <<disk, brewfile, system>>

\* BrewfileManager.machine_packages, as cmd_sync_adopt, cmd_sync_cleanup and
\* cmd_status call it first: _ensure_configured, get_machine_packages,
\* update_package_status (which loads the cache by PackageCache.refresh when
\* it is empty), get_installed_packages, compare_packages; then the handler's
\* "nothing to do" return
AfterStatus(st) ==
    IF cmd.name = "status" \/ (st.missing = <<>> /\ st.extra = <<>>)
    THEN Return
    ELSE /\ pc' = IF cmd.name = "interactive" THEN "menu" ELSE "confirm"
         /\ exit' = exit

StatusOf(cfg, installed) ==
    LET configured == update_package_status(get_machine_packages(cfg, hostname), installed)
        d == compare_packages(configured, installed)
    IN  [configured |-> configured, missing |-> d.missing, extra |-> d.extra]

MachinePackages ==
    /\ pc = "machine_packages"
    /\ config' = load(disk)
    /\ UNCHANGED <<disk, brewfile, cmd, confirm, package_info, disk0, system0>>
    /\ IF ~HasMachine(config'.machines, hostname)
       THEN /\ Die
            /\ UNCHANGED <<system, cache, status, log>>
       ELSE IF cache.loaded
       THEN /\ status' = StatusOf(config', get_installed_packages(cache))
            /\ AfterStatus(status')
            /\ UNCHANGED <<system, cache, log>>
       ELSE \E autoremove_ok \in BOOLEAN, dump_ok \in BOOLEAN :
            /\ system' = BrewAutoremove(system, autoremove_ok)
            /\ IF ~dump_ok
               THEN /\ log' = log \o << Call("autoremove", TRUE),
                                         Call("dump_system", FALSE) >>
                    /\ IF cmd.name \in {"status", "interactive"} THEN Die ELSE Crash
                    /\ UNCHANGED <<cache, status>>
               ELSE \E package_dict \in Listings(system') :
                    /\ log' = log \o << Call("autoremove", TRUE),
                                         Call("dump_system", TRUE), Call("list", TRUE) >>
                    /\ cache' = Cached(Snapshot(package_dict))
                    /\ status' = StatusOf(config', get_installed_packages(cache'))
                    /\ AfterStatus(status')

\* cmd_interactive after cmd_status: the menu.  Choice 3 (cmd_edit, which
\* hands the file to an editor) is not among the choices drawn.
Menu ==
    /\ pc = "menu"
    /\ \E choice \in {"1", "2", "4", "other", "KeyboardInterrupt"} :
        IF choice \in {"1", "2"}
        THEN /\ cmd' = [cmd EXCEPT !.name = IF choice = "1" THEN "sync-adopt"
                                                           ELSE "sync-cleanup"]
             /\ pc' = "machine_packages"
             /\ log' = <<>>
             /\ disk0' = disk
             /\ system0' = system
             /\ UNCHANGED exit
        ELSE /\ Return
             /\ log' = IF choice = "other" THEN Append(log, Warn("invalid choice")) ELSE log
             /\ UNCHANGED <<cmd, disk0, system0>>
    /\ UNCHANGED <<disk, brewfile, system, config, cache, status, confirm,
                   package_info>>

\* cmd_sync_adopt / cmd_sync_cleanup: the confirmation prompt
Confirm ==
    /\ pc = "confirm"
    /\ \E answer \in Answers :
        /\ confirm' = answer
        /\ IF answer \in {"EOFError", "KeyboardInterrupt"} \/ ~Affirmative(answer)
           THEN Return
           ELSE pc' = "install" /\ exit' = exit
    /\ UNCHANGED <<disk, brewfile, system, config, cache, cmd, status,
                   package_info, log, disk0, system0>>

\* mutant: a failed install is not turned into die, the handler goes on
sync_install_next_ignoring(name, install_ok) ==
    IF name = "sync-adopt" THEN "adopt" ELSE "cleanup"

\* cmd_sync_adopt lines 317-342, cmd_sync_cleanup lines 387-408: where the
\* handler goes once Brew.Bundle.install has returned or raised; the except
\* clause of the enclosing try turns CalledProcessError into die
sync_install_next(name, install_ok) ==
    IF install_ok
    THEN IF name = "sync-adopt" THEN "adopt" ELSE "cleanup"
    ELSE "die"

\* cmd_sync_adopt lines 318-322, cmd_sync_cleanup lines 388-392: install the
\* missing packages from a regenerated Brewfile
SyncInstall ==
    /\ pc = "install"
    /\ UNCHANGED <<disk, config, cache, cmd, status, confirm, package_info,
                   disk0, system0>>
    /\ IF status.missing = <<>>
       THEN /\ pc' = IF cmd.name = "sync-adopt" THEN "adopt" ELSE "cleanup"
            /\ UNCHANGED <<brewfile, system, log, exit>>
       ELSE \E write_ok \in BOOLEAN, install_ok \in BOOLEAN :
            IF ~write_ok
            THEN /\ Die
                 /\ UNCHANGED <<brewfile, system, log>>
            ELSE /\ brewfile' = _ensure_brewfile(config, brewfile)
                 /\ system' = BrewBundleInstall(system, brewfile', install_ok)
                 /\ log' = Append(log, Event("install", install_ok, <<>>, brewfile'))
                 /\ IF sync_install_next(cmd.name, install_ok) = "die"
                    THEN Die
                    ELSE /\ pc' = sync_install_next(cmd.name, install_ok)
                         /\ exit' = exit

\* the loop of cmd_sync_adopt, lines 334-335
RECURSIVE AdoptAll(_, _)
AdoptAll(group, extra) ==
    IF extra = <<>> THEN group
    ELSE AdoptAll(add_package(group, Head(extra).package_type, Head(extra).name),
                  Tail(extra))

\* mutant: the last group of the hostname's list is taken, not the first
adopt_extras_last_group(cfg, extra) ==
    LET groups == cfg.machines[hostname].groups
        target_group == IF groups # <<>> THEN groups[Len(groups)] ELSE "adopted"
        packages == IF ~HasGroup(cfg.packages, target_group)
                    THEN SetGroup(cfg.packages, target_group, PackageGroup)
                    ELSE cfg.packages
    IN  [cfg EXCEPT !.packages =
            SetGroup(packages, target_group,
                     AdoptAll(GetGroup(packages, target_group), extra))]

\* cmd_sync_adopt lines 325-337: the configuration with the extras adopted
adopt_extras(cfg, extra) ==
    LET groups == cfg.machines[hostname].groups
        target_group == IF groups # <<>> THEN groups[1] ELSE "adopted"
        packages == IF ~HasGroup(cfg.packages, target_group)
                    THEN SetGroup(cfg.packages, target_group, PackageGroup)
                    ELSE cfg.packages
    IN  [cfg EXCEPT !.packages =
            SetGroup(packages, target_group,
                     AdoptAll(GetGroup(packages, target_group), extra))]

\* cmd_sync_adopt lines 324-339
Adopt ==
    /\ pc = "adopt"
    /\ IF status.extra # <<>>
       THEN /\ config' = adopt_extras(config, status.extra)
            /\ disk' = File(to_document(config'))
            /\ log' = Append(log, Call("save", TRUE))
       ELSE UNCHANGED <<config, disk, log>>
    /\ Return
    /\ UNCHANGED <<brewfile, system, cache, cmd, status, confirm, package_info,
                   disk0, system0>>

\* mutant: no try around the cleanup call, the outer except clause dies
cleanup_outcome_fatal(cleanup_ok) == IF cleanup_ok THEN "success" ELSE "die"

\* cmd_sync_cleanup lines 399-403: Brew.Bundle.cleanup in a try of its own,
\* whose except clause warns
cleanup_outcome(cleanup_ok) == IF cleanup_ok THEN "success" ELSE "warn"

\* cmd_sync_cleanup lines 394-405
Cleanup ==
    /\ pc = "cleanup"
    /\ UNCHANGED <<disk, config, cache, cmd, status, confirm, package_info,
                   disk0, system0>>
    /\ IF status.extra = <<>>
       THEN /\ Return
            /\ UNCHANGED <<brewfile, system, log>>
       ELSE \E write_ok \in BOOLEAN, cleanup_ok \in BOOLEAN :
            IF ~write_ok
            THEN /\ Die
                 /\ UNCHANGED <<brewfile, system, log>>
            ELSE /\ brewfile' = _ensure_brewfile(config, brewfile)
                 /\ system' = BrewBundleCleanup(system, brewfile', cleanup_ok)
                 /\ log' = log \o << Event("cleanup", cleanup_ok, <<>>, brewfile') >>
                              \o (IF cleanup_outcome(cleanup_ok) = "warn"
                                  THEN << Warn("cleanup failed") >> ELSE <<>>)
                 /\ IF cleanup_outcome(cleanup_ok) = "die" THEN Die ELSE Return

\* what the two searches of Brew.detect_package_type can come to
DetectResults == {"cask", "formula", "no_match", "search_failed"}

\* Brew.detect_package_type
detect_package_type(result) == IF result = "cask" THEN "cask" ELSE "brew"

\* cmd_add lines 420-429: the configuration with the package in the first group
add_to_first_group(cfg, package_type, package_name) ==
    LET target_group == cfg.machines[hostname].groups[1]
        packages == IF ~HasGroup(cfg.packages, target_group)
                    THEN SetGroup(cfg.packages, target_group, PackageGroup)
                    ELSE cfg.packages
    IN  [cfg EXCEPT !.packages =
            SetGroup(packages, target_group,
                     add_package(GetGroup(packages, target_group), package_type,
                                 package_name))]

\* mutant: with no group to add to, a fallback group is made and saved, as
\* cmd_sync_adopt does
cmd_add_no_groups_fallback(cfg, old) ==
    File(to_document([cfg EXCEPT !.packages = SetGroup(@, "adopted", PackageGroup)]))

\* cmd_add lines 421-423: the file at config_file when the hostname has no
\* group and the handler dies
cmd_add_no_groups(cfg, old) == old

\* mutant: the configuration is not saved before the install
cmd_add_save_skipped(cfg, old) == old

\* cmd_add line 430: the file at config_file once the package is added
cmd_add_save(cfg, old) == File(to_document(cfg))

\* cmd_add lines 410-430: resolve the type, add to the first group, save
AddConfig ==
    /\ pc = "add"
    /\ UNCHANGED <<brewfile, system, cache, status, confirm, package_info,
                   disk0, system0>>
    /\ IF ~HasMachine(load(disk).machines, hostname)
       THEN /\ config' = load(disk)
            /\ Die
            /\ UNCHANGED <<disk, cmd, log>>
       ELSE \E result \in IF cmd.package_type = None THEN DetectResults ELSE {"given"} :
            LET package_type == IF result = "given" THEN cmd.package_type
                                ELSE detect_package_type(result)
                searched == CASE result = "given" -> <<>>
                              [] result = "no_match" ->
                                    << Call("search", TRUE), Warn("no exact match") >>
                              [] result = "search_failed" ->
                                    << Call("search", FALSE), Warn("search failed") >>
                              [] OTHER -> << Call("search", TRUE) >>
            IN  /\ cmd' = [cmd EXCEPT !.package_type = package_type]
                /\ IF load(disk).machines[hostname].groups = <<>>
                   THEN /\ config' = load(disk)
                        /\ log' = log \o searched
                        /\ Die
                        /\ disk' = cmd_add_no_groups(config', disk)
                   ELSE /\ config' = add_to_first_group(load(disk), package_type,
                                                        cmd.package_name)
                        /\ disk' = cmd_add_save(config', disk)
                        /\ log' = log \o searched \o << Call("save", TRUE) >>
                        /\ pc' = "add_install"
                        /\ exit' = exit

\* cmd_add lines 432-438: regenerate the Brewfile and install
AddInstall ==
    /\ pc = "add_install"
    /\ UNCHANGED <<disk, config, cache, cmd, status, confirm, package_info,
                   disk0, system0>>
    /\ \E write_ok \in BOOLEAN, install_ok \in BOOLEAN :
        IF ~write_ok
        THEN /\ Die
             /\ UNCHANGED <<brewfile, system, log>>
        ELSE /\ brewfile' = _ensure_brewfile(config, brewfile)
             /\ system' = BrewBundleInstall(system, brewfile', install_ok)
             /\ log' = Append(log, Event("install", install_ok, <<>>, brewfile'))
             /\ IF install_ok THEN Return ELSE Die

\* cmd_remove lines 440-450: look the package up
RemoveLookup ==
    /\ pc = "remove"
    /\ config' = load(disk)
    /\ UNCHANGED <<disk, brewfile, system, cache, cmd, status, confirm,
                   disk0, system0>>
    /\ IF ~HasMachine(config'.machines, hostname)
       THEN /\ Die
            /\ UNCHANGED <<package_info, log>>
       ELSE /\ package_info' = get_package_info(config', cmd.package_name)
            /\ IF ~package_info'.found
               THEN /\ log' = Append(log, Warn("not found in configuration"))
                    /\ Return
               ELSE /\ pc' = "remove_call"
                    /\ UNCHANGED <<log, exit>>

\* mutant: the package is removed from the configuration whatever the call did
cmd_remove_config_always(cfg, package_name, call_ok) ==
    remove_package(cfg, package_name)

\* cmd_remove lines 452-472: what becomes of the configuration once the
\* backend call has returned (call_ok) or raised CalledProcessError
cmd_remove_config(cfg, package_name, call_ok) ==
    IF call_ok
    THEN remove_package(cfg, package_name)
    ELSE [config |-> cfg, removed_type |-> None, removed_from_any_group |-> FALSE]

\* cmd_remove lines 452-472: the backend call by type, then the configuration
RemoveCall ==
    /\ pc = "remove_call"
    /\ UNCHANGED <<brewfile, cache, cmd, status, confirm, package_info,
                   disk0, system0>>
    /\ \E call_ok \in IF package_info.package_type = "mas" THEN {TRUE} ELSE BOOLEAN :
        LET t == package_info.package_type
            call == CASE t = "brew" ->
                            << Event("uninstall", call_ok, cmd.package_name, NoBrewfile) >>
                      [] t = "cask" ->
                            << Event("uninstall --cask", call_ok, cmd.package_name, NoBrewfile) >>
                      [] t = "tap" ->
                            << Event("untap", call_ok, cmd.package_name, NoBrewfile) >>
                      [] t = "mas" -> << Warn("MAS packages cannot be uninstalled") >>
            r == cmd_remove_config(config, cmd.package_name, call_ok)
        IN  /\ system' = IF t = "mas" THEN system
                         ELSE BrewUninstall(system, t, cmd.package_name, call_ok)
            /\ config' = r.config
            /\ disk' = IF r.removed_from_any_group THEN File(to_document(r.config)) ELSE disk
            /\ log' = log \o call
                        \o (IF r.removed_from_any_group THEN << Call("save", TRUE) >> ELSE <<>>)
                        \o (IF ~call_ok THEN << Warn("failed to remove, keeping") >>
                            ELSE IF r.removed_type = None
                            THEN << Warn("removed from system but not found in config") >>
                            ELSE <<>>)
            /\ Return

Next ==
    \/ Start
    \/ MachinePackages
    \/ Menu
    \/ Confirm
    \/ SyncInstall
    \/ Adopt
    \/ Cleanup
    \/ AddConfig
    \/ AddInstall
    \/ RemoveLookup
    \/ RemoveCall

Spec == Init /\ [][Next]_vars

\* ------------------------------------------- compare_packages on its own
\* the packages the two lists given to compare_packages are made of
CompareTypes == {"brew", "mas"}
CompareNames == { <<"a">>, <<"a", "1">>, <<"b">> }

RECURSIVE ListsOver(_, _)
ListsOver(S, n) ==
    IF n = 0 THEN { <<>> }
    ELSE ListsOver(S, n - 1)
         \cup { Append(l, x) : l \in { m \in ListsOver(S, n - 1) : Len(m) = n - 1 }, x \in S }

ConfiguredLists ==
    ListsOver({ PackageInfo(n, "core", t, "unknown") : n \in CompareNames, t \in CompareTypes },
              MaxLen)
InstalledLists ==
    ListsOver({ PackageInfo(n, None, t, "installed") : n \in CompareNames, t \in CompareTypes },
              MaxLen)

\* status.configured and the cache hold the two lists
InitCompare ==
    /\ status \in { [configured |-> c, missing |-> <<>>, extra |-> <<>>] :
                        c \in ConfiguredLists }
    /\ cache \in { Cached(i) : i \in InstalledLists }
    /\ pc = "compare"
    /\ disk = NoConfigFile
    /\ system = {}
    /\ brewfile = NoBrewfile
    /\ config = BrewfileConfig
    /\ cmd = NoCmd
    /\ confirm = ""
    /\ package_info = NoInfo
    /\ log = <<>>
    /\ exit = "none"
    /\ disk0 = disk
    /\ system0 = system

\* missing, extra = compare_packages(configured, installed)
Compare ==
    /\ pc = "compare"
    /\ status' = [configured |-> status.configured,
                  missing |-> compare_packages(status.configured,
                                               get_installed_packages(cache)).missing,
                  extra |-> compare_packages(status.configured,
                                             get_installed_packages(cache)).extra]
    /\ pc' = "compared"
    /\ UNCHANGED <<disk, brewfile, system, config, cache, cmd, confirm,
                   package_info, log, exit, disk0, system0>>

NextCompare == Compare

SpecCompare == InitCompare /\ [][NextCompare]_vars

\* ------------------------------------- the configuration store on its own
\* number of package names a configuration holds at most
MaxStorePkgs == 2

\* the names and the types given to the calls of the store
StoreNames == { <<"a">>, <<"b">> }
StoreTypes == PackageTypes

\* the entries of this host in the machines mapping: none, one group, and two
\* groups in the order opposite to the one of their names
StoreMachineEntries ==
    { [present |-> FALSE, groups |-> <<>>],
      [present |-> TRUE, groups |-> <<"core">>],
      [present |-> TRUE, groups |-> <<"dev", "core">>] }

\* a call of the store: the method and its arguments
StoreCall(name, group, package_type, package_name) ==
    [name |-> name, group |-> group, package_type |-> package_type,
     package_name |-> package_name]

\* the per-type list of a group of the configuration, empty when there is no
\* such group
GroupList(cfg, group_name, package_type) ==
    IF HasGroup(cfg.packages, group_name)
    THEN get_packages_of_type(GetGroup(cfg.packages, group_name), package_type)
    ELSE <<>>

\* all the names the configuration holds, groups in dict order
AllNames(cfg) ==
    Concat([g \in 1..Len(cfg.packages) |->
        Concat([t \in 1..4 |->
            get_packages_of_type(cfg.packages[g].group, PackageType[t])])])

\* a BrewfileManager as constructed, with a configuration that cmd_init has
\* or has not given an entry for this host
InitStore ==
    /\ config \in { [BrewfileConfig EXCEPT !.machines = [h \in Hosts |-> m]] :
                        m \in StoreMachineEntries }
    /\ disk = NoConfigFile
    /\ brewfile = NoBrewfile
    /\ system = {}
    /\ cache = NoCache
    /\ cmd = StoreCall("none", None, None, <<>>)
    /\ pc = "store"
    /\ status = NoStatus
    /\ confirm = ""
    /\ package_info = NoInfo
    /\ log = <<>>
    /\ exit = "none"
    /\ disk0 = disk
    /\ system0 = system

\* config.packages[group].add_package(package_type, package_name), the group
\* made first when the configuration has none of that name, as cmd_add and
\* cmd_sync_adopt do; the log holds the append when one took place
GroupAdd ==
    /\ pc = "store"
    /\ \E g \in GroupNames, t \in StoreTypes, n \in StoreNames :
        LET packages == IF ~HasGroup(config.packages, g)
                        THEN SetGroup(config.packages, g, PackageGroup)
                        ELSE config.packages
            group == add_package(GetGroup(packages, g), t, n)
        IN  /\ Len(AllNames(config)) < MaxStorePkgs \/ Contains(GroupList(config, g, t), n)
            /\ cmd' = StoreCall("add_package", g, t, n)
            /\ config' = [config EXCEPT !.packages = SetGroup(packages, g, group)]
            /\ log' = IF group # GetGroup(packages, g)
                      THEN << Event("list.append", TRUE, n, NoBrewfile) >> ELSE <<>>
    /\ package_info' = NoInfo
    /\ exit' = "ok"
    /\ UNCHANGED <<disk, brewfile, system, cache, pc, status, confirm, disk0, system0>>

\* config.packages[group].remove_package(package_type, package_name)
GroupRemove ==
    /\ pc = "store"
    /\ \E g \in GroupNames, t \in StoreTypes, n \in StoreNames :
        LET r == group_remove_package(GetGroup(config.packages, g), t, n)
        IN  /\ HasGroup(config.packages, g)
            /\ cmd' = StoreCall("remove_package", g, t, n)
            /\ config' = [config EXCEPT !.packages = SetGroup(config.packages, g, r.group)]
            /\ package_info' = [found |-> r.removed, group |-> g, package_type |-> t]
            /\ log' = IF r.removed
                      THEN << Event("list.remove", TRUE, n, NoBrewfile) >> ELSE <<>>
    /\ exit' = "ok"
    /\ UNCHANGED <<disk, brewfile, system, cache, pc, status, confirm, disk0, system0>>

\* config.remove_package(package_name, config_file): package_info keeps the
\* returned type, the log one entry for each list the name was taken from
\* and the save.  A behaviour builds a configuration by calls of its groups
\* and ends with one call of the configuration itself.
ConfigRemove ==
    /\ pc = "store"
    /\ \E n \in StoreNames :
        LET r == remove_package(config, n)
            taken == Len(SelectSeq(AllNames(config), LAMBDA x : x = n))
                        - Len(SelectSeq(AllNames(r.config), LAMBDA x : x = n))
        IN  /\ cmd' = StoreCall("BrewfileConfig.remove_package", None, None, n)
            /\ config' = r.config
            /\ package_info' = [found |-> r.removed_from_any_group, group |-> None,
                                package_type |-> r.removed_type]
            /\ disk' = IF r.removed_from_any_group THEN File(to_document(r.config)) ELSE disk
            /\ log' = [i \in 1..taken |-> Event("list.remove", TRUE, n, NoBrewfile)]
                        \o (IF r.removed_from_any_group THEN << Call("save", TRUE) >> ELSE <<>>)
    /\ exit' = "ok"
    /\ pc' = "returned"
    /\ UNCHANGED <<brewfile, system, cache, status, confirm, disk0, system0>>

\* config.get_machine_packages(hostname): status.configured keeps the list
\* that is returned; the method has no raise and no exit
GetMachinePackages ==
    /\ pc = "store"
    /\ cmd' = StoreCall("get_machine_packages", None, None, <<>>)
    /\ status' = [NoStatus EXCEPT !.configured = get_machine_packages(config, hostname)]
    /\ package_info' = NoInfo
    /\ log' = <<>>
    /\ exit' = "ok"
    /\ pc' = "returned"
    /\ UNCHANGED <<disk, brewfile, system, config, cache, confirm, disk0, system0>>

\* manager.dump_brewfile(hostname, brewfile_path), the write succeeding
DumpBrewfile ==
    /\ pc = "store"
    /\ cmd' = StoreCall("dump_brewfile", None, None, <<>>)
    /\ brewfile' = File(dump_brewfile(config, hostname))
    /\ package_info' = NoInfo
    /\ log' = <<>>
    /\ exit' = "ok"
    /\ pc' = "returned"
    /\ UNCHANGED <<disk, system, config, cache, status, confirm, disk0, system0>>

NextStore ==
    \/ GroupAdd
    \/ GroupRemove
    \/ ConfigRemove
    \/ GetMachinePackages
    \/ DumpBrewfile

SpecStore == InitStore /\ [][NextStore]_vars

\* ------------------------------------------ remove, run and run again
\* number of times the same remove command line is run
MaxRuns == 2

\* cli.main for "brewfile remove <name>": a new process, a new BrewfileManager
RemoveStart ==
    /\ pc = "idle"
    /\ \E n \in RemoveNames :
        cmd' = [name |-> "remove", package_name |-> n, package_type |-> None]
    /\ pc' = "remove"
    /\ config' = BrewfileConfig
    /\ cache' = NoCache
    /\ status' = NoStatus
    /\ confirm' = ""
    /\ package_info' = NoInfo
    /\ log' = <<>>
    /\ exit' = "none"
    /\ disk0' = disk
    /\ system0' = system
    /\ UNCHANGED <<disk, brewfile, system>>

\* cli.main once more with the same command line, in a new process: the
\* files and the system are as the run before left them.  The log goes on,
\* with an entry for where the new run starts and how the one before ended.
Rerun ==
    /\ pc = "done"
    /\ cmd.name = "remove"
    /\ Cardinality({ i \in 1..Len(log) : log[i].op = "main" }) + 1 < MaxRuns
    /\ pc' = "remove"
    /\ config' = BrewfileConfig
    /\ cache' = NoCache
    /\ status' = NoStatus
    /\ confirm' = ""
    /\ package_info' = NoInfo
    /\ log' = Append(log, Call("main", exit = "ok"))
    /\ exit' = "none"
    /\ disk0' = disk
    /\ system0' = system
    /\ UNCHANGED <<disk, brewfile, system, cmd>>

NextRerun ==
    \/ RemoveStart
    \/ RemoveLookup
    \/ RemoveCall
    \/ Rerun

SpecRerun == Init /\ [][NextRerun]_vars

\* ------------------------------------------- load of any file whatever
\* what json.load can give for a value: a dict, a list, a str, a number, None
JsonKinds == {"object", "array", "string", "number", "null"}

\* the files at config_file, by the shape of what they hold: text that is
\* not JSON, or a JSON value of kind top; for a dict the kind of the value at
\* "packages" and at "machines" ("absent" for no such key); for a dict at
\* "packages" the kind of its values, the groups ("absent" for no group); for
\* a group that is a dict the kind of its per-type values ("absent" for none;
\* "array" is a list of names)
Documents ==
    { [decodable |-> FALSE, top |-> "absent", packages |-> "absent", group |-> "absent",
       entry |-> "absent", machines |-> "absent"] }
    \cup { [decodable |-> TRUE, top |-> k, packages |-> "absent", group |-> "absent",
            entry |-> "absent", machines |-> "absent"] : k \in JsonKinds \ {"object"} }
    \cup { [decodable |-> TRUE, top |-> "object", packages |-> pk, group |-> g,
            entry |-> e, machines |-> m] :
            pk \in JsonKinds \cup {"absent"}, g \in JsonKinds \cup {"absent"},
            e \in JsonKinds \cup {"absent"}, m \in JsonKinds \cup {"absent"} }

\* BrewfileConfig.load lines 189-194 with from_dict lines 168-181: the
\* exception that leaves load, "none" when a BrewfileConfig is returned.
\* json.load raises JSONDecodeError, which load turns into ValueError; .get
\* and .items() of anything but a dict raise AttributeError, which the except
\* clause (JSONDecodeError, KeyError, TypeError) lets through; the per-type
\* values, "version" and "machines" are taken as they are.
load_raises(document) ==
    IF ~document.decodable THEN "ValueError"
    ELSE IF document.top # "object" THEN "AttributeError"
    ELSE IF document.packages = "absent" THEN "none"
    ELSE IF document.packages # "object" THEN "AttributeError"
    ELSE IF document.group = "absent" THEN "none"
    ELSE IF document.group # "object" THEN "AttributeError"
    ELSE "none"

InitLoad ==
    /\ disk \in { File(d) : d \in Documents }
    /\ brewfile = NoBrewfile
    /\ system = {}
    /\ config = BrewfileConfig
    /\ cache = NoCache
    /\ cmd = NoCmd
    /\ pc = "load"
    /\ status = NoStatus
    /\ confirm = ""
    /\ package_info = NoInfo
    /\ log = <<>>
    /\ exit = "none"
    /\ disk0 = disk
    /\ system0 = system

\* BrewfileConfig.load(config_file) of a file that exists: exit keeps the
\* exception that left it, "ok" when it returned
LoadDocument ==
    /\ pc = "load"
    /\ disk.exists
    /\ pc' = "loaded"
    /\ exit' = IF load_raises(disk.data) = "none" THEN "ok" ELSE load_raises(disk.data)
    /\ UNCHANGED <<disk, brewfile, system, config, cache, cmd, status, confirm,
                   package_info, log, disk0, system0>>

NextLoad == LoadDocument

SpecLoad == InitLoad /\ [][NextLoad]_vars

\* ------------------------------------------------ the cache on its own
\* number of calls of the cache in one process
MaxCalls == 3

\* the lists given to update_package_status
StatusArguments ==
    { << PackageInfo(<<"git">>, "core", "brew", "unknown"),
         PackageInfo(<<"slack", "1">>, "core", "mas", "unknown") >> }

\* the calls of the cache the log holds
CacheCalls == {"get_installed_packages", "update_package_status"}

\* a new PackageCache on some system
InitCache ==
    /\ system \in InitSystems
    /\ cache = NoCache
    /\ pc = "cache"
    /\ disk = NoConfigFile
    /\ brewfile = NoBrewfile
    /\ config = BrewfileConfig
    /\ cmd = NoCmd
    /\ status = NoStatus
    /\ confirm = ""
    /\ package_info = NoInfo
    /\ log = <<>>
    /\ exit = "none"
    /\ disk0 = disk
    /\ system0 = system

\* what Brew.Bundle.list_packages returns when the queries of the types in
\* failed exit nonzero: nothing for these types, the names in some order for
\* the others
ListingsFailing(sys, failed) ==
    LET names(t) == IF t \in failed THEN {} ELSE { p[2] : p \in { q \in sys : q[1] = t } }
    IN  [taps : Perms(names("tap")), brews : Perms(names("brew")),
         casks : Perms(names("cask")), mas : Perms(names("mas"))]

\* what a call hands back, given the snapshot: status.configured keeps the
\* list returned by get_installed_packages, or the list whose records
\* update_package_status has set
CallResult(call, packages, installed_packages) ==
    [NoStatus EXCEPT !.configured =
        IF call = "get_installed_packages" THEN installed_packages
        ELSE update_package_status(packages, installed_packages)]

\* one call of PackageCache.get_installed_packages or of
\* PackageCache.update_package_status (which calls the former first), with
\* PackageCache.refresh when the cache asks for it.  Brew.Bundle.dump_system
\* raises CalledProcessError when the dump fails; no caller catches it to go
\* on, so the process ends there.  The log keeps how each backend call
\* exited: the autoremove, the dump, and the four list queries as one entry
\* that is ok when none of them failed.
CacheCall ==
    /\ pc = "cache"
    /\ Cardinality({ i \in 1..Len(log) : log[i].op \in CacheCalls }) < MaxCalls
    /\ UNCHANGED <<disk, brewfile, config, cmd, confirm, package_info, disk0, system0>>
    /\ \E call \in CacheCalls, packages \in StatusArguments :
        IF ~needs_refresh(cache)
        THEN /\ log' = Append(log, Call(call, TRUE))
             /\ status' = CallResult(call, packages, get_installed_packages(cache))
             /\ UNCHANGED <<system, cache, pc, exit>>
        ELSE \E autoremove_ok \in BOOLEAN, dump_ok \in BOOLEAN :
             /\ system' = BrewAutoremove(system, autoremove_ok)
             /\ IF ~dump_ok
                THEN /\ log' = log \o << Call(call, FALSE), Call("autoremove", autoremove_ok),
                                          Call("dump_system", FALSE) >>
                     /\ Crash
                     /\ UNCHANGED <<cache, status>>
                ELSE \E failed \in SUBSET PackageTypes :
                     \E package_dict \in ListingsFailing(system', failed) :
                     /\ log' = log \o << Call(call, TRUE), Call("autoremove", autoremove_ok),
                                          Call("dump_system", TRUE), Call("list", failed = {}) >>
                     /\ cache' = Cached(Snapshot(package_dict))
                     /\ status' = CallResult(call, packages, get_installed_packages(cache'))
                     /\ UNCHANGED <<pc, exit>>

\* between two calls the system changes under the cache: a package gets
\* installed, as by the Brew.Bundle.install of the manager
InstallBetween ==
    /\ pc = "cache"
    /\ \E p \in SysUniverse \ system : system' = system \cup {p}
    /\ UNCHANGED <<disk, brewfile, config, cache, cmd, pc, status, confirm,
                   package_info, log, exit, disk0, system0>>

NextCache ==
    \/ CacheCall
    \/ InstallBetween

SpecCache == InitCache /\ [][NextCache]_vars

\* ----------------------------------------------------------------- claims
\* the backend operations that take installed packages away
RemovingOps == {"autoremove", "cleanup", "uninstall", "uninstall --cask", "untap"}
\* the single-package removal calls of cmd_remove
RemovalCalls == {"uninstall", "uninstall --cask", "untap"}

Invoked(ops) == \E i \in 1..Len(log) : log[i].op \in ops
Failed(ops) == \E i \in 1..Len(log) : log[i].op \in ops /\ ~log[i].ok
Count(ops) == Cardinality({ i \in 1..Len(log) : log[i].op \in ops })

InSync == cmd.name \in {"sync-adopt", "sync-cleanup"}
\* the prompt was answered, and not with a yes
Declined == pc = "done" /\ confirm \in Answers /\ ~Affirmative(confirm)

\* C1: in sync-adopt and sync-cleanup, once the operator has answered the
\* prompt with anything but a yes (EOF and keyboard interrupt included), the
\* command has ended with the installed packages and the persisted
\* configuration as they were when it started.
C1_DeclineMutatesNothing ==
    (InSync /\ Declined) => (system = system0 /\ disk = disk0)

\* the identity of a package: its type and name, for a StoreApp its display
\* name; a manifest directive names a package by it
Identity(p) ==
    IF p.package_type = "mas" THEN <<"mas", AppName(p.name)>>
    ELSE <<p.package_type, p.name>>

\* C2: in sync-cleanup, the manifest on disk when the backend cleanup is
\* invoked is the one generated from this hostname's configuration, and it
\* holds a directive for none of the extra (installed, not configured)
\* packages.
C2_CleanupManifestFromConfig ==
    cmd.name = "sync-cleanup" =>
        \A i \in 1..Len(log) :
            log[i].op = "cleanup" =>
                /\ status.extra # <<>>
                /\ log[i].manifest = File(dump_brewfile(load(disk0), hostname))
                /\ \A j \in 1..Len(status.extra) :
                        Identity(status.extra[j]) \notin ManifestPkgs(log[i].manifest)

\* a confirmed sync-cleanup has called the backend cleanup with a manifest
\* that lists a configured package, while an extra package is installed
C2_Witness ==
    /\ cmd.name = "sync-cleanup" /\ pc = "done" /\ Affirmative(confirm)
    /\ status.extra # <<>>
    /\ \E i \in 1..Len(log) :
            log[i].op = "cleanup" /\ ManifestPkgs(log[i].manifest) # {}

\* cmd_remove: the name is configured and the backend removal call failed
RemovalFailed == cmd.name = "remove" /\ pc = "done" /\ Failed(RemovalCalls)

\* C3: in remove, when the package is configured and the backend removal
\* call fails, the configuration, in memory and persisted, is the one from
\* before the command and still contains the package.
C3_FailedRemovalKeepsConfig ==
    RemovalFailed =>
        /\ disk = disk0
        /\ config = load(disk0)
        /\ get_package_info(config, cmd.package_name).found
        /\ get_package_info(load(disk), cmd.package_name).found
        /\ ~Invoked({"save"})

C3_Witness == RemovalFailed /\ package_info.found

\* C4: in remove of a package whose configured type is StoreApp, a warning
\* is emitted, no backend removal call is attempted, and the configuration is
\* left unchanged and is not persisted again.
C4_MasRemoveKeepsConfig ==
    (cmd.name = "remove" /\ pc = "done" /\ package_info.found
        /\ package_info.package_type = "mas") =>
        /\ Invoked({"warn"})
        /\ ~Invoked(RemovalCalls)
        /\ config = load(disk0)
        /\ disk = disk0
        /\ ~Invoked({"save"})

\* the package of cmd_add is in the first group of the hostname, under its type
AddedIn(cfg) ==
    /\ HasMachine(cfg.machines, hostname)
    /\ cfg.machines[hostname].groups # <<>>
    /\ HasGroup(cfg.packages, cfg.machines[hostname].groups[1])
    /\ Contains(get_packages_of_type(GetGroup(cfg.packages, cfg.machines[hostname].groups[1]),
                                      cmd.package_type),
                cmd.package_name)

AddInstallFailed == cmd.name = "add" /\ pc = "done" /\ Failed({"install"})

\* C5: in add, the configuration with the new package is persisted before
\* the backend install is invoked; when the install fails the persisted
\* configuration still contains the package and the command ends fatally.
C5_AddPersistsBeforeInstall ==
    cmd.name = "add" =>
        /\ pc = "add_install" => (AddedIn(load(disk)) /\ ~Invoked({"install"}))
        /\ \A i \in 1..Len(log) :
                log[i].op = "install" =>
                    /\ \E j \in 1..(i - 1) : log[j].op = "save"
                    /\ AddedIn(load(disk))
        /\ AddInstallFailed => (AddedIn(load(disk)) /\ exit = "fatal")

\* the install of an add has failed, for a package that was not configured
C5_Witness ==
    /\ AddInstallFailed
    /\ ~get_package_info(load(disk0), cmd.package_name).found

AdoptInstallFailed == cmd.name = "sync-adopt" /\ pc = "done" /\ Failed({"install"})

\* C6: in a confirmed sync-adopt with missing packages, when the backend
\* install fails the operation is aborted fatally: no extra package is added
\* to any group and the configuration is not persisted.
C6_AdoptInstallFailureAborts ==
    AdoptInstallFailed =>
        /\ exit = "fatal"
        /\ config = load(disk0)
        /\ disk = disk0
        /\ ~Invoked({"save"})

\* the install of a confirmed sync-adopt has failed with extras waiting
C6_Witness ==
    AdoptInstallFailed /\ Affirmative(confirm) /\ status.missing # <<>>
        /\ status.extra # <<>>

\* a confirmed sync-adopt whose install succeeded or was skipped has ended
AdoptDone ==
    /\ cmd.name = "sync-adopt" /\ pc = "done" /\ exit = "ok"
    /\ Affirmative(confirm)

\* every extra is in group g of cfg, under its own type and name
ExtrasIn(cfg, g) ==
    /\ HasGroup(cfg.packages, g)
    /\ \A j \in 1..Len(status.extra) :
            Contains(get_packages_of_type(GetGroup(cfg.packages, g),
                                          status.extra[j].package_type),
                     status.extra[j].name)

\* C7 as stated: in a confirmed sync-adopt whose install succeeded or was
\* skipped, every extra is appended to the first group of the hostname's
\* list and the configuration is persisted exactly once, after the appends.
C7_AdoptFirstGroupSavedOnce ==
    AdoptDone =>
        /\ config.machines[hostname].groups # <<>>
        /\ ExtrasIn(config, config.machines[hostname].groups[1])
        /\ Count({"save"}) = 1
        /\ disk = File(to_document(config))

\* the group cmd_sync_adopt adopts into
AdoptTarget ==
    IF config.machines[hostname].groups # <<>>
    THEN config.machines[hostname].groups[1]
    ELSE "adopted"

\* C7 amended: in a confirmed sync-adopt whose install succeeded or was
\* skipped, when the extra list is not empty every extra is added under its
\* own type and name to the first group of the hostname's list (to the group
\* "adopted" when that list is empty), no other group changes, and the
\* configuration is persisted exactly once, after all of them are added; when
\* the extra list is empty nothing is added and nothing is persisted.
C7_AdoptTargetGroupSavedOnce ==
    AdoptDone =>
        IF status.extra # <<>>
        THEN /\ ExtrasIn(config, AdoptTarget)
             /\ ExtrasIn(load(disk), AdoptTarget)
             /\ \A g \in GroupNames \ {AdoptTarget} :
                    /\ HasGroup(config.packages, g) = HasGroup(load(disk0).packages, g)
                    /\ HasGroup(config.packages, g) =>
                            GetGroup(config.packages, g) = GetGroup(load(disk0).packages, g)
             /\ Count({"save"}) = 1
             /\ log[Len(log)].op = "save"
             /\ disk = File(to_document(config))
        ELSE /\ Count({"save"}) = 0
             /\ config = load(disk0)
             /\ disk = disk0

\* a confirmed sync-adopt has adopted two extras for a hostname with two groups
C7_Witness ==
    /\ AdoptDone
    /\ Len(status.extra) >= 2
    /\ Len(config.machines[hostname].groups) >= 2

\* C8: in a confirmed sync-cleanup the install comes before the cleanup; a
\* failing install ends the command fatally with no cleanup call, a failing
\* cleanup after a successful or skipped install is reported as a warning and
\* the command ends non-fatally.
C8_CleanupInstallFirstThenWarn ==
    cmd.name = "sync-cleanup" =>
        \A i \in 1..Len(log) :
            /\ log[i].op = "install" =>
                    /\ \A j \in 1..(i - 1) : log[j].op # "cleanup"
                    /\ ~log[i].ok =>
                            (~Invoked({"cleanup"}) /\ pc = "done" /\ exit = "fatal")
            /\ (log[i].op = "cleanup" /\ ~log[i].ok) =>
                    /\ pc = "done" /\ exit = "ok"
                    /\ i < Len(log) /\ log[i + 1].op = "warn"

\* a confirmed sync-cleanup whose install succeeded and whose cleanup failed
C8_Witness ==
    /\ cmd.name = "sync-cleanup" /\ pc = "done"
    /\ \E i \in 1..Len(log) : log[i].op = "install" /\ log[i].ok
    /\ Failed({"cleanup"})

\* C9: over the whole sync-adopt command, whatever the operator answers, no
\* backend operation that uninstalls or prunes installed packages is invoked.
C9_AdoptRemovesNothing ==
    cmd.name = "sync-adopt" => ~Invoked(RemovingOps)

\* the identity of p occurs in the list
OccursIn(p, list) == \E i \in 1..Len(list) : Identity(list[i]) = Identity(p)

\* C10: for the lists given to compare_packages, every configured package
\* is in exactly one of reconciled and missing, and every installed package
\* in exactly one of reconciled and extra, where reconciled means that its
\* identity (type and name, for a StoreApp the display name) is on both sides.
C10_DiffPartition ==
    pc = "compared" =>
        /\ \A i \in 1..Len(status.configured) :
                (status.configured[i] \in Range(status.missing))
                    # OccursIn(status.configured[i], get_installed_packages(cache))
        /\ \A j \in 1..Len(cache.packages) :
                (cache.packages[j] \in Range(status.extra))
                    # OccursIn(cache.packages[j], status.configured)

\* a StoreApp pair of the two lists that carries the same display name
SameStoreApp(c, i) ==
    /\ c.package_type = "mas" /\ i.package_type = "mas"
    /\ AppName(c.name) = AppName(i.name)

\* C11: a configured StoreApp entry and an installed StoreApp entry with the
\* same display name are matched by compare_packages, the configured one is
\* not missing and the installed one is not extra, whether or not either of
\* them carries a "::id" suffix.
C11_StoreAppDisplayNameOnly ==
    pc = "compared" =>
        \A i \in 1..Len(status.configured), j \in 1..Len(cache.packages) :
            SameStoreApp(status.configured[i], cache.packages[j]) =>
                /\ status.configured[i] \notin Range(status.missing)
                /\ cache.packages[j] \notin Range(status.extra)

\* the identity-set of a list: the raw (type, name) of every entry and, for a
\* StoreApp, its display name as well
IdentitySet(list) ==
    { <<list[i].package_type, list[i].name>> : i \in 1..Len(list) }
        \cup { Identity(list[i]) : i \in 1..Len(list) }

\* C12: the missing list is the configured list restricted, order and
\* occurrences kept, to the packages whose identity (for a StoreApp the
\* display name) is absent from the identity-set of the installed list.
C12_MissingExactInOrder ==
    pc = "compared" =>
        status.missing =
            SelectSeq(status.configured,
                      LAMBDA p : Identity(p) \notin IdentitySet(cache.packages))

\* the display names of the configured StoreApp entries that carry an id
StoreAppDisplayNames(list) ==
    { Identity(list[i]) :
        i \in { j \in 1..Len(list) : list[j].package_type = "mas" /\ HasId(list[j].name) } }

\* C13: the extra list is the installed list restricted, order and
\* occurrences kept, to the packages whose identity (for a StoreApp the
\* display name) is absent from the identity-set of the configured list and
\* from the display names of the configured StoreApp entries.
C13_ExtraExactInOrder ==
    pc = "compared" =>
        status.extra =
            SelectSeq(cache.packages,
                      LAMBDA p : /\ Identity(p) \notin IdentitySet(status.configured)
                                 /\ Identity(p) \notin StoreAppDisplayNames(status.configured))

\* no per-type list of any group holds a name twice
NoDuplicates(cfg) ==
    \A g \in 1..Len(cfg.packages), t \in PackageTypes :
        LET list == get_packages_of_type(cfg.packages[g].group, t)
        IN  \A i, j \in 1..Len(list) : list[i] = list[j] => i = j

\* one call of add_package: a name the list already holds leaves the
\* configuration as it is, a new name goes to the end of the list
AddIsSetInsert ==
    cmd'.name = "add_package" =>
        LET before == GroupList(config, cmd'.group, cmd'.package_type)
            after == GroupList(config', cmd'.group, cmd'.package_type)
        IN  IF Contains(before, cmd'.package_name)
            THEN after = before /\ (HasGroup(config.packages, cmd'.group) => config' = config)
            ELSE after = Append(before, cmd'.package_name)

\* C14: adding a name that a group already holds under the same type leaves
\* the group unchanged, a new name is appended, and from a group without
\* duplicates no sequence of add_package and remove_package calls leads to a
\* per-type list that holds a name twice.
C14_AddKeepsSetSemantics ==
    [](NoDuplicates(config)) /\ [][AddIsSetInsert]_vars

\* add_package was called with a name its list already held, among two names
C14_Witness ==
    /\ cmd.name = "add_package" /\ log = <<>>
    /\ Len(GroupList(config, cmd.group, cmd.package_type)) = 2
    /\ Contains(GroupList(config, cmd.group, cmd.package_type), cmd.package_name)

\* the (group, type) positions, in the order remove_package goes through
\* them, at which the configuration holds the name
Holders(cfg, package_name) ==
    { <<g, t>> \in (1..Len(cfg.packages)) \X (1..4) :
        Contains(get_packages_of_type(cfg.packages[g].group, PackageType[t]), package_name) }

\* one call of BrewfileConfig.remove_package
RemoveTakesAll ==
    cmd'.name = "BrewfileConfig.remove_package" =>
        LET n == cmd'.package_name
            held == Holders(config, n)
            last == CHOOSE x \in held :
                        \A y \in held : x[1] > y[1] \/ (x[1] = y[1] /\ x[2] >= y[2])
        IN  /\ Holders(config', n) = {}
            /\ Len(config'.packages) = Len(config.packages)
            /\ \A g \in 1..Len(config.packages), t \in PackageTypes :
                    /\ config'.packages[g].name = config.packages[g].name
                    /\ get_packages_of_type(config'.packages[g].group, t) =
                        SelectSeq(get_packages_of_type(config.packages[g].group, t),
                                  LAMBDA x : x # n)
            /\ IF held = {}
               THEN /\ package_info'.package_type = None
                    /\ config' = config
                    /\ disk' = disk
                    /\ \A i \in 1..Len(log') : log'[i].op # "save"
               ELSE /\ package_info'.package_type = PackageType[last[2]]
                    /\ disk' = File(to_document(config'))

PlaceOf(cfg, p) ==
    LET groups == cfg.machines[hostname].groups
        list == GroupList(cfg, p.group, p.package_type)
    IN  << CHOOSE g \in 1..Len(groups) : groups[g] = p.group,
           CHOOSE t \in 1..4 : PackageType[t] = p.package_type,
           CHOOSE i \in 1..Len(list) : list[i] = p.name >>

Before(a, b) ==
    \/ a[1] < b[1]
    \/ a[1] = b[1] /\ a[2] < b[2]
    \/ a[1] = b[1] /\ a[2] = b[2] /\ a[3] < b[3]

\* C17: for a configured hostname get_machine_packages returns one record
\* for each name of each group of the hostname's list, with the owning group
\* and status Unknown, ordered by the position of the group in that list,
\* then by PackageType enumeration order, then by insertion order.
C17_MachinePackagesOrder ==
    (cmd.name = "get_machine_packages" /\ HasMachine(config.machines, hostname)) =>
        LET r == status.configured
            groups == config.machines[hostname].groups
        IN  /\ \A k \in 1..Len(r) :
                    /\ Contains(groups, r[k].group)
                    /\ Contains(GroupList(config, r[k].group, r[k].package_type), r[k].name)
                    /\ r[k].installed = "unknown"
            /\ \A g \in 1..Len(groups), t \in PackageTypes :
                    \A i \in 1..Len(GroupList(config, groups[g], t)) :
                        \E k \in 1..Len(r) :
                            r[k] = PackageInfo(GroupList(config, groups[g], t)[i],
                                               groups[g], t, "unknown")
            /\ \A k, l \in 1..Len(r) :
                    k < l => Before(PlaceOf(config, r[k]), PlaceOf(config, r[l]))

\* the list returned holds two packages that differ in group or in type, for
\* a hostname whose groups are listed against the order of their names
C17_Witness ==
    /\ cmd.name = "get_machine_packages"
    /\ config.machines[hostname].groups = <<"dev", "core">>
    /\ Len(status.configured) = 2
    /\ \/ status.configured[1].group # status.configured[2].group
       \/ status.configured[1].package_type # status.configured[2].package_type

\* C18: for a hostname that the machines mapping does not hold, neither
\* get_machine_packages nor dump_brewfile returns: no package list, empty or
\* not, is handed back and no manifest is written.
C18_UnconfiguredReadFails ==
    (cmd.name \in {"get_machine_packages", "dump_brewfile"}
        /\ ~HasMachine(config.machines, hostname)) =>
        /\ exit # "ok"
        /\ brewfile = NoBrewfile

\* where the run that is going on starts in the log: after the last "main"
RunStart ==
    LET marks == { i \in 1..Len(log) : log[i].op = "main" }
    IN  IF marks = {} THEN 0 ELSE CHOOSE i \in marks : \A j \in marks : j <= i

\* the log of the run that is going on
ThisRun == SubSeq(log, RunStart + 1, Len(log))

\* the run before this one ended normally and none of its removal calls failed
RunBeforeSucceeded ==
    /\ RunStart > 0
    /\ log[RunStart].ok
    /\ \A i \in 1..(RunStart - 1) : log[i].op \in RemovalCalls => log[i].ok

\* C16: a remove of a name the configuration does not hold warns, makes no
\* backend call and changes neither the configuration nor the system; and a
\* remove run again after it succeeded changes neither of them.
C16_RemoveAbsentNoOpIdempotent ==
    (cmd.name = "remove" /\ pc = "done") =>
        /\ (HasMachine(load(disk0).machines, hostname)
                /\ ~get_package_info(load(disk0), cmd.package_name).found) =>
                /\ ThisRun = << Warn("not found in configuration") >>
                /\ exit = "ok"
                /\ config = load(disk0)
                /\ disk = disk0
                /\ system = system0
        /\ RunBeforeSucceeded =>
                /\ \A i \in 1..Len(ThisRun) : ThisRun[i].op \notin RemovalCalls \cup {"save"}
                /\ config = load(disk0)
                /\ disk = disk0
                /\ system = system0

\* a remove that uninstalled an installed package and took it out of the
\* configuration has been run a second time
C16_Witness ==
    /\ cmd.name = "remove" /\ pc = "done"
    /\ RunBeforeSucceeded
    /\ \E i \in 1..(RunStart - 1) : log[i].op = "uninstall" /\ log[i].ok
    /\ \E i \in 1..(RunStart - 1) : log[i].op = "save"
    /\ <<"brew", cmd.package_name>> \notin system

\* the document has the shape of a configuration: a mapping whose
\* "packages", when given, maps group names to mappings from type to a list
\* of names, and whose "machines", when given, is a mapping
StructurallyValid(document) ==
    /\ document.decodable
    /\ document.top = "object"
    /\ document.packages \in {"absent", "object"}
    /\ document.packages = "object" =>
            /\ document.group \in {"absent", "object"}
            /\ document.group = "object" => document.entry \in {"absent", "array"}
    /\ document.machines \in {"absent", "object"}

\* C19: load of an existing document that is structurally invalid fails with
\* the configuration parse error (the ValueError that load raises): it
\* returns no configuration and fails with no other error.
C19_InvalidDocumentParseError ==
    (pc = "loaded" /\ ~StructurallyValid(disk.data)) => exit = "ValueError"


\* the last call of the cache
LastCall ==
    LET calls == { i \in 1..Len(log) : log[i].op \in CacheCalls }
    IN  log[CHOOSE i \in calls : \A j \in calls : j <= i]

\* the record is marked installed exactly when the snapshot holds it
MarkedBySnapshot(p) ==
    (p.installed = "installed") <=>
        \E i \in 1..Len(cache.packages) :
            /\ cache.packages[i].package_type = p.package_type
            /\ cache.packages[i].name =
                    IF p.package_type = "mas" /\ HasId(p.name) THEN AppName(p.name) ELSE p.name

\* a step refreshes only from a cache without snapshot, and a snapshot once
\* built stays
RefreshOnlyWhenUnloaded ==
    /\ Len(log') > Len(log) + 1 => ~cache.loaded
    /\ cache.loaded => cache' = cache

\* C20: over the get_installed_packages and update_package_status calls of
\* one process the backend is queried by at most one refresh, which takes
\* place only when no snapshot is cached, and every call that returns hands
\* back, or marks by, the snapshot that refresh built, an empty one included.
C20_LazyRefreshOnce ==
    /\ [](Count({"autoremove"}) <= 1 /\ Count({"dump_system"}) <= 1 /\ Count({"list"}) <= 1)
    /\ []((pc = "cache" /\ Invoked(CacheCalls)) =>
            /\ cache.loaded
            /\ Count({"list"}) = 1
            /\ IF LastCall.op = "get_installed_packages"
               THEN status.configured = cache.packages
               ELSE \A k \in 1..Len(status.configured) : MarkedBySnapshot(status.configured[k]))
    /\ [][RefreshOnlyWhenUnloaded]_vars

\* three calls have returned on an empty snapshot while packages are installed
C20_Witness ==
    /\ pc = "cache"
    /\ Count(CacheCalls) = 3
    /\ cache = Cached(<<>>)
    /\ system # {}
    /\ Count({"dump_system"}) = 1

\* C21: when the backend dump of the system state exits nonzero, refresh
\* tolerates it: the call that refreshed returns to its caller, no error
\* leaves it.
C21_RefreshToleratesDumpFailure ==
    Failed({"dump_system"}) => (exit # "crash" /\ pc = "cache")

\* the backend calls whose failure does not end the operation
SwallowedCalls == {"autoremove", "list", "cleanup", "search"} \cup RemovalCalls

\* C22: every backend failure that is swallowed on a non-fatal path, that of
\* the autoremove, of a list query, of the cleanup, of a single-package
\* uninstall or of a type-detection search, is followed by a warning in the
\* log of the operation that went on.
C22_NoFailureSilentlyLost ==
    (pc # "done" \/ exit = "ok") =>
        \A i \in 1..Len(log) :
            (log[i].op \in SwallowedCalls /\ ~log[i].ok) =>
                \E j \in (i + 1)..Len(log) : log[j].op = "warn"

\* the Brewfile on disk was generated from the configuration as it is now
ManifestFresh ==
    /\ brewfile.exists
    /\ cmd.name = "sync-adopt" => ~Invoked({"save"})

\* the line a configured package is to give in the manifest
LineOf(p) ==
    IF p.package_type # "mas"
    THEN [kind |-> p.package_type, name |-> p.name, id |-> <<>>]
    ELSE IF HasId(p.name)
    THEN [kind |-> "mas", name |-> <<p.name[1]>>, id |-> Tail(p.name)]
    ELSE [kind |-> "comment", name |-> p.name, id |-> <<>>]

\* the place of a line's group in the fixed order Tap, Formula, Cask, StoreApp
GroupRank(kind) ==
    CASE kind = "tap" -> 1
      [] kind = "brew" -> 2
      [] kind = "cask" -> 3
      [] kind \in {"mas", "comment"} -> 4

\* C23: the manifest written by dump_brewfile holds one line for each
\* configured package of the hostname, grouped by type in the order Tap,
\* Formula, Cask, StoreApp and within a type in the configured order, with an
\* empty line closing each non-empty Tap, Formula and Cask group and nowhere
\* else; a StoreApp with an id gives a directive that carries the id, a
\* StoreApp without one gives a comment line and no directive.
C23_ManifestFormat ==
    ManifestFresh =>
        LET m == brewfile.data
            pk == get_machine_packages(config, hostname)
            nb == SelectSeq(m, LAMBDA l : l.kind # "blank")
        IN  /\ \A i, j \in 1..Len(nb) :
                    i < j => GroupRank(nb[i].kind) <= GroupRank(nb[j].kind)
            /\ \A t \in 1..4 :
                    LET of_type == SelectSeq(pk, LAMBDA q : q.package_type = PackageType[t])
                    IN  SelectSeq(nb, LAMBDA l : GroupRank(l.kind) = t) =
                            [i \in 1..Len(of_type) |-> LineOf(of_type[i])]
            /\ \A i \in 1..Len(m) :
                    /\ m[i].kind = "blank" =>
                            /\ i > 1 /\ m[i - 1].kind \in {"tap", "brew", "cask"}
                            /\ i < Len(m) => m[i + 1].kind # m[i - 1].kind
                    /\ m[i].kind \in {"tap", "brew", "cask"} =>
                            /\ i < Len(m) /\ m[i + 1].kind \in {m[i].kind, "blank"}
                    /\ m[i].kind = "mas" => m[i].id # <<>>

\* a manifest with a formula, the empty line and a StoreApp directive with
\* its id has been written
C23_Witness ==
    /\ ManifestFresh
    /\ \E i \in 1..Len(brewfile.data) : brewfile.data[i].kind = "brew"
    /\ \E i \in 1..Len(brewfile.data) :
            brewfile.data[i].kind = "mas" /\ brewfile.data[i].id = <<"1">>

\* cmd_add has ended for a hostname that is configured with no group
AddWithoutGroups ==
    /\ cmd.name = "add" /\ pc = "done"
    /\ HasMachine(load(disk0).machines, hostname)
    /\ load(disk0).machines[hostname].groups = <<>>

\* C24: add for a hostname whose group list is empty ends fatally with
\* nothing changed: no group made or modified, the configuration not saved,
\* no manifest written and no backend install invoked.
C24_AddWithoutGroupsFails ==
    AddWithoutGroups =>
        /\ exit = "fatal"
        /\ config = load(disk0)
        /\ disk = disk0
        /\ brewfile = NoBrewfile
        /\ system = system0
        /\ ~Invoked({"save", "install"})

\* such an add has ended, with a group in the configuration that the
\* hostname does not list
C24_Witness ==
    /\ AddWithoutGroups
    /\ load(disk0).packages # <<>>

\* C25: after a confirmed sync-adopt that ended normally, the diff of the
\* hostname's configured packages, as persisted, against the same snapshot
\* holds no extra package.
C25_AdoptConverges ==
    AdoptDone =>
        compare_packages(get_machine_packages(load(disk), hostname),
                         get_installed_packages(cache)).extra = <<>>

\* machine_packages has returned its three lists in this process
StatusComputed ==
    cmd.name \in {"status", "interactive", "sync-adopt", "sync-cleanup"} /\ cache.loaded

\* C26: of the configured list machine_packages returns, a package is marked
\* not installed exactly when it is in the missing list, it is marked
\* installed otherwise, and none is left unknown.
C26_MarkingAgreesWithDiff ==
    StatusComputed =>
        \A i \in 1..Len(status.configured) :
            /\ status.configured[i].installed \in {"installed", "not_installed"}
            /\ (status.configured[i].installed = "not_installed")
                    <=> (status.configured[i] \in Range(status.missing))

\* a StoreApp configured with its id is marked installed by the snapshot
\* that holds its display name
C26_Witness ==
    /\ StatusComputed
    /\ \E i \in 1..Len(status.configured) :
            /\ status.configured[i].package_type = "mas"
            /\ HasId(status.configured[i].name)
            /\ status.configured[i].installed = "installed"

====
